---- MODULE Spec2Model ----
(***************************************************************************)
(* Model of the AI Test Tracker (src/app.py): a Streamlit script that      *)
(* keeps test records in sample_data.xlsx, caches the loaded table with    *)
(* st.cache_data(ttl=60), renders four pages and appends records from a    *)
(* form.                                                                   *)
(*                                                                         *)
(* One action is one run of the script (main and the page it shows) for    *)
(* one user interaction; CacheExpire is the passing of the cache's ttl.    *)
(* A DataFrame is a sequence of rows, a row a record over the ten columns, *)
(* a cell a string.  Two spellings of "no value" are kept apart as pandas  *)
(* keeps them apart: the empty string '' of create_sample_data and of the  *)
(* form, and the missing value NaN that read_excel produces for an empty   *)
(* cell.  Numbers in Cycles_Completed are written as their decimal text    *)
(* (a cell is then always a string).  Writing the file is assumed to       *)
(* succeed; reading it fails when the file is corrupt.                     *)
(***************************************************************************)
EXTENDS Integers, Sequences, FiniteSets, TLC

VARIABLES
    storage,    \* sample_data.xlsx: [state, rows]
    cache,      \* st.cache_data entry of load_data: [hit, value]
    page,       \* the page the browser shows ("none" before the first run)
    run         \* the latest script run: what it loaded, its input, its output

vars == <<storage, cache, page, run>>

\* The number of form-entered rows a table may hold before the form is used
\* on it again (bounds the tables the model builds).
MaxAdded == 2

NaN == "<NaN>"
All == "All"

Columns ==
    {"Test_ID", "Date", "Project", "Title", "Test_Type", "Status",
     "Failure_Type", "Failure_Description", "Observations", "Cycles_Completed"}

Row(id, date, project, title, type, status, ftype, fdesc, obs, cycles) ==
    [Test_ID |-> id, Date |-> date, Project |-> project, Title |-> title,
     Test_Type |-> type, Status |-> status, Failure_Type |-> ftype,
     Failure_Description |-> fdesc, Observations |-> obs,
     Cycles_Completed |-> cycles]

-----------------------------------------------------------------------------
\* create_sample_data: the fixed five rows, empty cells as ''.
create_sample_data ==
    << Row("TST_001", "2024-09-01", "Apache", "Center Stand Test", "Endurance",
           "Fail", "Structural", "Weld crack at joint", "Visible fatigue crack",
           "50000"),
       Row("TST_002", "2024-09-01", "MD1", "Brake System", "Performance",
           "Pass", "", "", "All specs met", ""),
       Row("TST_003", "2024-09-02", "N597", "Side Stand", "Endurance",
           "In Progress", "", "", "Test ongoing", "25000"),
       Row("TST_004", "2024-09-02", "Apache", "Swingarm Test", "Strength",
           "Pass", "", "", "No issues", ""),
       Row("TST_005", "2024-09-03", "MD1", "Rear Brake", "Performance",
           "Fail", "Hydraulic", "Brake fluid leak", "Seal failure", "") >>

\* DataFrame.to_excel: '' and NaN are both written as an empty cell.
to_excel(df) ==
    [i \in 1..Len(df) |->
        [c \in Columns |-> IF df[i][c] = NaN THEN "" ELSE df[i][c]]]

\* pd.read_excel: an empty cell is read as NaN.
read_excel(rows) ==
    [i \in 1..Len(rows) |->
        [c \in Columns |-> IF rows[i][c] = "" THEN NaN ELSE rows[i][c]]]

Missing == [state |-> "missing", rows |-> <<>>]
Corrupt == [state |-> "corrupt", rows |-> <<>>]
File(rows) == [state |-> "ok", rows |-> rows]

\* load_data_body with the except branch writing the sample table as well.
load_data_body_persisting(file) ==
    IF file.state = "ok"
    THEN [df |-> read_excel(file.rows), storage |-> file, how |-> "read"]
    ELSE [df |-> create_sample_data,
          storage |-> File(to_excel(create_sample_data)),
          how |-> IF file.state = "missing" THEN "created" ELSE "read_error"]

\* The body of load_data: [df, storage, how].
load_data_body(file) ==
    IF file.state = "ok"
    THEN [df |-> read_excel(file.rows), storage |-> file, how |-> "read"]
    ELSE IF file.state = "missing"
    THEN [df |-> create_sample_data,
          storage |-> File(to_excel(create_sample_data)),
          how |-> "created"]
    ELSE \* os.path.exists holds, read_excel raises: the except branch
         [df |-> create_sample_data, storage |-> file, how |-> "read_error"]

NoCache == [hit |-> FALSE, value |-> <<>>]

\* load_data under st.cache_data: a live entry is returned as it is.
load_data(c, file) ==
    IF c.hit
    THEN [df |-> c.value, storage |-> file, how |-> "cached", cache |-> c]
    ELSE LET r == load_data_body(file)
         IN  [df |-> r.df, storage |-> r.storage, how |-> r.how,
              cache |-> [hit |-> TRUE, value |-> r.df]]

-----------------------------------------------------------------------------
\* df[col]: one column of a table.
Column(df, c) == [i \in 1..Len(df) |-> df[i][c]]

\* df[df[col] == v]: the rows whose cell equals v, in order (NaN equals nothing).
WhereEq(df, c, v) == SelectSeq(df, LAMBDA r : r[c] = v /\ r[c] # NaN)

\* df[df[col] != v]: the rows whose cell differs from v, in order (NaN differs
\* from everything).
WhereNe(df, c, v) == SelectSeq(df, LAMBDA r : r[c] # v \/ r[c] = NaN)

Count(col, v) == Cardinality({i \in 1..Len(col) : col[i] = v})

\* Series.unique: the distinct values in order of first appearance.
RECURSIVE unique(_)
unique(col) ==
    IF col = <<>> THEN <<>>
    ELSE <<Head(col)>> \o SelectSeq(unique(Tail(col)), LAMBDA v : v # Head(col))

\* sort by descending count, equal counts staying in their given order.
RECURSIVE sort_desc(_)
sort_desc(items) ==
    IF items = <<>> THEN <<>>
    ELSE LET top == CHOOSE i \in 1..Len(items) :
                      /\ \A j \in 1..Len(items) : items[j][2] <= items[i][2]
                      /\ \A j \in 1..(i - 1) : items[j][2] < items[i][2]
         IN  <<items[top]>> \o
             sort_desc(SubSeq(items, 1, top - 1) \o SubSeq(items, top + 1, Len(items)))

\* value_counts without the sort (sort=False).
value_counts_unsorted(col) ==
    LET vals == SelectSeq(col, LAMBDA v : v # NaN)
        cats == unique(vals)
    IN  [i \in 1..Len(cats) |-> <<cats[i], Count(vals, cats[i])>>]

\* Series.value_counts(): <<category, count>> pairs over the values that are
\* not NaN (dropna=True), by descending count.
value_counts(col) ==
    LET vals == SelectSeq(col, LAMBDA v : v # NaN)
        cats == unique(vals)
    IN  sort_desc([i \in 1..Len(cats) |-> <<cats[i], Count(vals, cats[i])>>])

\* f"{(part/total)*100:.1f}": the percentage in tenths, rounded to nearest
\* (half to even); total is not 0.
Pct1(part, total) ==
    LET n == part * 1000
        q == n \div total
        r == n % total
    IN  IF 2 * r > total \/ (2 * r = total /\ q % 2 = 1) THEN q + 1 ELSE q

-----------------------------------------------------------------------------
\* Prompts and patterns are sequences of characters.
UpperCase ==
    <<"A", "B", "C", "D", "E", "F", "G", "H", "I", "J", "K", "L", "M",
      "N", "O", "P", "Q", "R", "S", "T", "U", "V", "W", "X", "Y", "Z">>
LowerCase ==
    <<"a", "b", "c", "d", "e", "f", "g", "h", "i", "j", "k", "l", "m",
      "n", "o", "p", "q", "r", "s", "t", "u", "v", "w", "x", "y", "z">>

\* str.lower
lower(s) ==
    [i \in 1..Len(s) |->
        IF \E k \in 1..Len(UpperCase) : UpperCase[k] = s[i]
        THEN LowerCase[CHOOSE k \in 1..Len(UpperCase) : UpperCase[k] = s[i]]
        ELSE s[i]]

\* pat in s
Contains(s, pat) ==
    \E k \in 0..(Len(s) - Len(pat)) : SubSeq(s, k + 1, k + Len(pat)) = pat

PatHowMany == <<"h", "o", "w", " ", "m", "a", "n", "y">>
PatFail == <<"f", "a", "i", "l">>
PatWhichProject == <<"w", "h", "i", "c", "h", " ", "p", "r", "o", "j", "e", "c", "t">>
PatFailureType == <<"f", "a", "i", "l", "u", "r", "e", " ", "t", "y", "p", "e">>
PatEndurance == <<"e", "n", "d", "u", "r", "a", "n", "c", "e">>

\* The endurance branch of query_ai; the division raises when no row is an
\* endurance test.
endurance_summary(df) ==
    LET endurance_tests == WhereEq(df, "Test_Type", "Endurance")
        total == Len(endurance_tests)
        failed == Len(WhereEq(endurance_tests, "Status", "Fail"))
        passed == Len(WhereEq(endurance_tests, "Status", "Pass"))
    IN  IF total = 0
        THEN [kind |-> "ZeroDivisionError"]
        ELSE [kind |-> "endurance", total |-> total, passed |-> passed,
              failed |-> failed, rate |-> Pct1(passed, total)]

\* The rule chain of query_ai over the table df it has read.
respond(prompt, df) ==
    LET prompt_lower == lower(prompt)
    IN  IF Contains(prompt_lower, PatHowMany) /\ Contains(prompt_lower, PatFail)
        THEN [kind |-> "failed_count",
              failed_count |-> Len(WhereEq(df, "Status", "Fail"))]
        ELSE IF Contains(prompt_lower, PatWhichProject)
                /\ Contains(prompt_lower, PatFail)
        THEN LET failed_tests == WhereEq(df, "Status", "Fail")
             IN  [kind |-> "by_project", counted |-> Len(failed_tests),
                  items |-> value_counts(Column(failed_tests, "Project"))]
        ELSE IF Contains(prompt_lower, PatFailureType)
        THEN LET with_type == WhereNe(df, "Failure_Type", "")
             IN  [kind |-> "failure_types", counted |-> Len(with_type),
                  items |-> value_counts(Column(with_type, "Failure_Type"))]
        ELSE IF Contains(prompt_lower, PatEndurance)
        THEN endurance_summary(df)
        ELSE [kind |-> "help"]

\* query_ai answering from the table it is handed.
query_ai_from_context(prompt, data_context, file) ==
    respond(prompt, data_context)

\* query_ai: reads the file itself; data_context is not used.
query_ai(prompt, data_context, file) ==
    IF file.state = "corrupt"
    THEN [kind |-> "ReadError"]      \* read_excel raises, nothing catches it
    ELSE respond(prompt, IF file.state = "ok" THEN read_excel(file.rows)
                         ELSE create_sample_data)

\* The options of a filter selectbox: "All" and the column's distinct values.
FilterOptions(df, c) == {All} \cup {df[i][c] : i \in 1..Len(df)}

\* The filters each applied to the whole table, the last active one winning.
apply_filters_last_wins(df, status_filter, project_filter, test_type_filter) ==
    LET f1 == IF status_filter # All
              THEN WhereEq(df, "Status", status_filter) ELSE df
        f2 == IF project_filter # All
              THEN WhereEq(df, "Project", project_filter) ELSE f1
        f3 == IF test_type_filter # All
              THEN WhereEq(df, "Test_Type", test_type_filter) ELSE f2
    IN  f3

\* The filters of show_dashboard, applied one after the other.
apply_filters(df, status_filter, project_filter, test_type_filter) ==
    LET f1 == IF status_filter # All
              THEN WhereEq(df, "Status", status_filter) ELSE df
        f2 == IF project_filter # All
              THEN WhereEq(f1, "Project", project_filter) ELSE f1
        f3 == IF test_type_filter # All
              THEN WhereEq(f2, "Test_Type", test_type_filter) ELSE f2
    IN  f3

\* What show_dashboard computes from df and the three filters.
show_dashboard(df, status_filter, project_filter, test_type_filter) ==
    [kind |-> "dashboard",
     total_tests |-> Len(df),
     passed_tests |-> Len(WhereEq(df, "Status", "Pass")),
     failed_tests |-> Len(WhereEq(df, "Status", "Fail")),
     in_progress |-> Len(WhereEq(df, "Status", "In Progress")),
     status_counts |-> value_counts(Column(df, "Status")),
     project_counts |-> value_counts(Column(df, "Project")),
     filtered_df |-> apply_filters(df, status_filter, project_filter,
                                   test_type_filter)]

\* What show_reports computes; the success-rate metric divides by len(df).
show_reports(df) ==
    IF Len(df) = 0
    THEN [kind |-> "ZeroDivisionError"]
    ELSE [kind |-> "report",
          total |-> Len(df),
          success_rate |-> Pct1(Len(WhereEq(df, "Status", "Pass")), Len(df)),
          failed |-> Len(WhereEq(df, "Status", "Fail")),
          in_progress |-> Len(WhereEq(df, "Status", "In Progress")),
          failure_by_project |->
              IF Len(WhereEq(df, "Status", "Fail")) > 0
              THEN value_counts(Column(WhereEq(df, "Status", "Fail"), "Project"))
              ELSE <<>>]

\* The check of the required fields without the title.
required_filled_no_title(test_id, project, title) ==
    test_id # "" /\ project # ""

\* The form's check of the required fields (an empty string is falsy).
required_filled(test_id, project, title) ==
    test_id # "" /\ project # "" /\ title # ""

\* new_record of show_data_entry; cycles is the number typed, the date is the
\* day's date already formatted.
new_record(test_id, date, project, title, test_type, status, failure_type, failure_description, observations, cycles) ==
    Row(test_id, date, project, title, test_type, status, failure_type,
        failure_description, observations,
        IF cycles > 0 THEN ToString(cycles) ELSE "")

\* pd.concat([df, pd.DataFrame([record])], ignore_index=True)
concat(df, record) == Append(df, record)

-----------------------------------------------------------------------------
\* What the user may type and pick (a few values of each widget).
PromptHowManyFailed ==          \* "How many tests failed?"
    <<"H", "o", "w", " ", "m", "a", "n", "y", " ", "t", "e", "s", "t", "s", " ",
      "f", "a", "i", "l", "e", "d", "?">>
PromptWhichProjectsFail ==      \* "Which projects fail"
    <<"W", "h", "i", "c", "h", " ", "p", "r", "o", "j", "e", "c", "t", "s", " ",
      "f", "a", "i", "l">>
PromptFailureTypes ==           \* "Show failure types"
    <<"S", "h", "o", "w", " ", "f", "a", "i", "l", "u", "r", "e", " ", "t", "y",
      "p", "e", "s">>
PromptEndurance ==              \* "ENDURANCE tests"
    <<"E", "N", "D", "U", "R", "A", "N", "C", "E", " ", "t", "e", "s", "t", "s">>
PromptRandom ==                 \* "asdf random text"
    <<"a", "s", "d", "f", " ", "r", "a", "n", "d", "o", "m", " ", "t", "e", "x", "t">>
PromptHowManyFailureType ==     \* "how many failure type"
    <<"h", "o", "w", " ", "m", "a", "n", "y", " ", "f", "a", "i", "l", "u", "r",
      "e", " ", "t", "y", "p", "e">>
PromptWhichProjectFailureType ==    \* "which project failure type"
    <<"w", "h", "i", "c", "h", " ", "p", "r", "o", "j", "e", "c", "t", " ", "f",
      "a", "i", "l", "u", "r", "e", " ", "t", "y", "p", "e">>
PromptEnduranceFailureType ==   \* "endurance failure type"
    <<"e", "n", "d", "u", "r", "a", "n", "c", "e", " ", "f", "a", "i", "l", "u",
      "r", "e", " ", "t", "y", "p", "e">>
PromptHowManyOnly ==            \* "how many"
    <<"h", "o", "w", " ", "m", "a", "n", "y">>

Prompts ==
    { <<>>, PromptHowManyFailed, PromptWhichProjectsFail, PromptFailureTypes,
      PromptEndurance, PromptRandom, PromptHowManyFailureType,
      PromptWhichProjectFailureType, PromptEnduranceFailureType,
      PromptHowManyOnly }

FormTestIds == {"", "TST_006"}
FormTitles == {"", "Chain Test"}
FormProjects == {"Other"}
FormTestTypes == {"Endurance"}
FormStatuses == {"Pass", "Fail"}
FormFailureTypes == {"", "Structural"}
FormCycles == {1000}
FormDate == "2024-09-04"

StatusChoices == {All, "Fail"}
ProjectChoices == {All, "Apache"}
TestTypeChoices == {All, "Endurance"}

\* The rows of a table that came from the form.
Added(df) == Len(SelectSeq(df, LAMBDA r : r.Test_ID \in FormTestIds))

InitFiles ==
    { Missing, Corrupt, File(<<>>), File(to_excel(create_sample_data)),
      File(to_excel(SubSeq(create_sample_data, 4, 5))) }

Init ==
    /\ storage \in InitFiles
    /\ cache = NoCache
    /\ page = "none"
    /\ run = [op |-> "none"]

\* What a run records of its call of load_data.
Loaded(ld) == [how |-> ld.how, df |-> ld.df, storage |-> ld.storage]

\* main showing the dashboard: the first run of a session, a return to the
\* page (the selectboxes then show "All"), a change of a filter, a refresh.
ShowDashboard(status_filter, project_filter, test_type_filter) ==
    LET ld == load_data(cache, storage)
    IN  /\ page # "Dashboard" =>
              /\ status_filter = All
              /\ project_filter = All
              /\ test_type_filter = All
        /\ status_filter \in FilterOptions(ld.df, "Status")
        /\ project_filter \in FilterOptions(ld.df, "Project")
        /\ test_type_filter \in FilterOptions(ld.df, "Test_Type")
        /\ storage' = ld.storage
        /\ cache' = ld.cache
        /\ page' = "Dashboard"
        /\ run' = [op |-> "dashboard", load |-> Loaded(ld),
                   input |-> <<status_filter, project_filter, test_type_filter>>,
                   out |-> show_dashboard(ld.df, status_filter, project_filter,
                                          test_type_filter)]

\* main showing the AI Analysis page, the Analyze button not pressed.
ShowAIAnalysis ==
    LET ld == load_data(cache, storage)
    IN  /\ page # "none"
        /\ storage' = ld.storage
        /\ cache' = ld.cache
        /\ page' = "AI Analysis"
        /\ run' = [op |-> "ai_page", load |-> Loaded(ld), input |-> <<>>,
                   out |-> [kind |-> "idle"]]

\* main with the Analyze button pressed on the AI Analysis page.
Analyze(prompt) ==
    LET ld == load_data(cache, storage)
    IN  /\ page = "AI Analysis"
        /\ storage' = ld.storage
        /\ cache' = ld.cache
        /\ page' = page
        /\ run' = [op |-> "analyze", load |-> Loaded(ld), input |-> prompt,
                   out |-> IF prompt # <<>>
                           THEN query_ai(prompt, ld.df, ld.storage)
                           ELSE [kind |-> "warning"]]

\* main showing the Data Entry page, the form not submitted.
ShowDataEntry ==
    LET ld == load_data(cache, storage)
    IN  /\ page # "none"
        /\ storage' = ld.storage
        /\ cache' = ld.cache
        /\ page' = "Data Entry"
        /\ run' = [op |-> "entry_page", load |-> Loaded(ld), input |-> <<>>,
                   out |-> [kind |-> "idle"]]

\* main with the form of the Data Entry page submitted.  An accepted record
\* is written with the table main loaded, and st.experimental_rerun runs
\* main again, which calls load_data again.
Submit(test_id, project, title, test_type, status, failure_type, cycles) ==
    LET ld == load_data(cache, storage)
        record == new_record(test_id, FormDate, project, title, test_type,
                             status, failure_type, "", "", cycles)
        updated_df == concat(ld.df, record)
        again == load_data(ld.cache, File(to_excel(updated_df)))
    IN  /\ page = "Data Entry"
        /\ page' = page
        /\ IF required_filled(test_id, project, title)
           THEN /\ Added(ld.df) < MaxAdded
                /\ storage' = again.storage
                /\ cache' = again.cache
                /\ run' = [op |-> "submit", load |-> Loaded(ld),
                           input |-> record,
                           out |-> [kind |-> "success", rerun_df |-> again.df]]
           ELSE /\ storage' = ld.storage
                /\ cache' = ld.cache
                /\ run' = [op |-> "submit", load |-> Loaded(ld),
                           input |-> record, out |-> [kind |-> "error"]]

\* main showing the Reports page.
ShowReports ==
    LET ld == load_data(cache, storage)
    IN  /\ page # "none"
        /\ storage' = ld.storage
        /\ cache' = ld.cache
        /\ page' = "Reports"
        /\ run' = [op |-> "reports", load |-> Loaded(ld), input |-> <<>>,
                   out |-> show_reports(ld.df)]

\* The ttl of st.cache_data runs out: the next load_data runs its body.
CacheExpire ==
    /\ cache.hit
    /\ cache' = NoCache
    /\ UNCHANGED <<storage, page, run>>

Next ==
    \/ \E s \in StatusChoices, p \in ProjectChoices, t \in TestTypeChoices :
          ShowDashboard(s, p, t)
    \/ ShowAIAnalysis
    \/ \E prompt \in Prompts : Analyze(prompt)
    \/ ShowDataEntry
    \/ \E test_id \in FormTestIds, project \in FormProjects,
          title \in FormTitles, test_type \in FormTestTypes,
          status \in FormStatuses, failure_type \in FormFailureTypes,
          cycles \in FormCycles :
          Submit(test_id, project, title, test_type, status, failure_type, cycles)
    \/ ShowReports
    \/ CacheExpire

Spec == Init /\ [][Next]_vars
-----------------------------------------------------------------------------
\* Properties of the runs.

Ran == run.op # "none"
Accepted == run.op = "submit" /\ run.out.kind = "success"
Analyzed == run.op = "analyze" /\ run.input # <<>>

\* The table a reader of the file sees.
Stored == read_excel(storage.rows)

RECURSIVE SumCounts(_)
SumCounts(items) ==
    IF items = <<>> THEN 0 ELSE Head(items)[2] + SumCounts(Tail(items))

Present(col) == Cardinality({i \in 1..Len(col) : col[i] # NaN})

\* items lists every value of col once, with the number of its rows, by
\* descending count.
CountsOf(items, col) ==
    /\ \A i, j \in 1..Len(items) : i < j =>
          /\ items[i][1] # items[j][1]
          /\ items[i][2] >= items[j][2]
    /\ \A i \in 1..Len(items) :
          /\ items[i][2] > 0
          /\ items[i][2] = Cardinality({k \in 1..Len(col) : col[k] = items[i][1]})
    /\ \A k \in 1..Len(col) :
          col[k] # NaN => \E i \in 1..Len(items) : items[i][1] = col[k]

\* The rows of table t whose column c holds v / does not hold v, as a reader
\* of the claim picks them: by index, NaN holding no value.
RowsWith(t, c, v) == {i \in 1..Len(t) : t[i][c] = v}

\* C1 (as claimed): an accepted submission leaves the file holding what it
\* held just before, with the new record added at the end.
C1_AppendOnly ==
    (Accepted /\ run.load.storage.state = "ok") =>
        storage = File(Append(run.load.storage.rows,
                              to_excel(<<run.input>>)[1]))

\* C2: a submission whose test_id, project or title is empty is answered
\* with the validation error and changes neither the file nor the cached
\* table.
C2_RejectedNoMutation ==
    [][(/\ run'.op = "submit"
        /\ cache'.hit
        /\ \/ run'.input.Test_ID = ""
           \/ run'.input.Project = ""
           \/ run'.input.Title = "")
       => /\ run'.out.kind = "error"
          /\ storage' = storage
          /\ Len(storage'.rows) = Len(storage.rows)
          /\ cache'.value = run'.load.df
          /\ cache.hit => cache' = cache]_vars

C2_Witness ==
    /\ run.op = "submit"
    /\ run.input.Title = ""
    /\ run.input.Test_ID # ""
    /\ run.out.kind = "error"
    /\ storage.state = "ok"
    /\ Len(storage.rows) > 0

\* C3 (as claimed): the endurance summary is returned for every table, with
\* a success rate of 0 when the table has no endurance row.
C3_EnduranceSummary ==
    (run.op = "analyze" /\ run.input = PromptEndurance /\ storage.state = "ok")
        => /\ run.out.kind = "endurance"
           /\ RowsWith(Stored, "Test_Type", "Endurance") = {} => run.out.rate = 0

\* C4 (as claimed): the success rate of the Reports page lies in 0..100 (kept
\* in tenths) and is 0 for a table without rows.
C4_SuccessRate ==
    run.op = "reports"
        => /\ run.out.kind = "report"
           /\ run.out.success_rate \in 0..1000
           /\ Len(run.load.df) = 0 => run.out.success_rate = 0

\* The first rule of the fixed order that a prompt matches.
FirstRule(prompt) ==
    LET p == lower(prompt)
    IN  CASE Contains(p, PatHowMany) /\ Contains(p, PatFail) -> 1
        [] Contains(p, PatWhichProject) /\ Contains(p, PatFail) -> 2
        [] Contains(p, PatFailureType) -> 3
        [] Contains(p, PatEndurance) -> 4
        [] OTHER -> 5

\* C5 (as claimed): every prompt is answered by the first rule it matches:
\* the count of failed records, the failures per project, the failure types,
\* the endurance summary, or the help message.
C5_FirstMatchingRule ==
    (Analyzed /\ storage.state = "ok") =>
        LET rule == FirstRule(run.input)
        IN  /\ rule = 1 =>
                 /\ run.out.kind = "failed_count"
                 /\ run.out.failed_count
                        = Cardinality(RowsWith(Stored, "Status", "Fail"))
            /\ rule = 2 => run.out.kind = "by_project"
            /\ rule = 3 => run.out.kind = "failure_types"
            /\ rule = 4 => run.out.kind = "endurance"
            /\ rule = 5 => run.out.kind = "help"

\* C6 (as claimed): when the file is missing or cannot be read, load_data
\* returns the sample table and the file then holds the five sample rows.
C6_SamplePersisted ==
    (Ran /\ run.load.how \in {"created", "read_error"})
        => /\ run.load.df = create_sample_data
           /\ run.load.storage = File(to_excel(create_sample_data))

\* C6 (amended): load_data returns the sample table in both cases; it writes
\* the five sample rows to the file when the file was missing, and leaves
\* the unreadable file as it is when reading failed.
C6_SampleReturned ==
    Ran =>
        /\ run.load.how = "created" =>
              /\ run.load.df = create_sample_data
              /\ run.load.storage = File(to_excel(create_sample_data))
              /\ Len(run.load.storage.rows) = 5
        /\ run.load.how = "read_error" =>
              /\ run.load.df = create_sample_data
              /\ run.load.storage = Corrupt

C6_Witness ==
    /\ Ran
    /\ run.load.how = "read_error"
    /\ storage = Corrupt
    /\ cache.hit
    /\ cache.value = create_sample_data

\* The columns the runs count, with the counts they show.
FailedProjects(t) == Column(WhereEq(t, "Status", "Fail"), "Project")

\* C7 (as claimed): every count-by result lists each category once, by
\* descending count, and its counts sum to the number of rows counted.
C7_CountsPartition ==
    /\ run.op = "dashboard" =>
          /\ CountsOf(run.out.status_counts, Column(run.load.df, "Status"))
          /\ SumCounts(run.out.status_counts) = Len(run.load.df)
          /\ CountsOf(run.out.project_counts, Column(run.load.df, "Project"))
          /\ SumCounts(run.out.project_counts) = Len(run.load.df)
    /\ (Analyzed /\ run.out.kind = "by_project") =>
          /\ CountsOf(run.out.items, FailedProjects(Stored))
          /\ SumCounts(run.out.items) = run.out.counted
    /\ (Analyzed /\ run.out.kind = "failure_types") =>
          /\ CountsOf(run.out.items,
                      Column(WhereNe(Stored, "Failure_Type", ""), "Failure_Type"))
          /\ SumCounts(run.out.items) = run.out.counted

\* C7 (amended): every count-by result lists each category once, by
\* descending count, and its counts sum to the number of counted rows that
\* hold a value in the counted column (a cell read back as missing is in no
\* category).
C7_CountsPartitionPresent ==
    /\ run.op = "dashboard" =>
          /\ CountsOf(run.out.status_counts, Column(run.load.df, "Status"))
          /\ SumCounts(run.out.status_counts)
                = Present(Column(run.load.df, "Status"))
          /\ CountsOf(run.out.project_counts, Column(run.load.df, "Project"))
          /\ SumCounts(run.out.project_counts)
                = Present(Column(run.load.df, "Project"))
    /\ (Analyzed /\ run.out.kind = "by_project") =>
          /\ CountsOf(run.out.items, FailedProjects(Stored))
          /\ SumCounts(run.out.items) = Present(FailedProjects(Stored))
    /\ (Analyzed /\ run.out.kind = "failure_types") =>
          /\ CountsOf(run.out.items, Column(Stored, "Failure_Type"))
          /\ SumCounts(run.out.items) = Present(Column(Stored, "Failure_Type"))
    /\ run.op = "reports" /\ run.out.kind = "report" =>
          /\ CountsOf(run.out.failure_by_project, FailedProjects(run.load.df))
          /\ SumCounts(run.out.failure_by_project)
                = Present(FailedProjects(run.load.df))

C7_Witness ==
    /\ Analyzed
    /\ run.out.kind = "failure_types"
    /\ Len(run.out.items) >= 2
    /\ SumCounts(run.out.items) < run.out.counted

\* C8: the filtered table of the dashboard is the rows of the loaded table
\* that match every filter not set to "All", in their order, and the loaded
\* table stays as it was.
C8_FilterSubsequence ==
    run.op = "dashboard" =>
        LET df == run.load.df
            keep == {i \in 1..Len(df) :
                        /\ run.input[1] # All => df[i].Status = run.input[1]
                        /\ run.input[2] # All => df[i].Project = run.input[2]
                        /\ run.input[3] # All => df[i].Test_Type = run.input[3]}
            out == run.out.filtered_df
        IN  /\ Len(out) = Cardinality(keep)
            /\ \A n \in 1..Len(out) :
                  \E i \in keep :
                     /\ out[n] = df[i]
                     /\ Cardinality({k \in keep : k < i}) = n - 1
            /\ run.out.total_tests = Len(df)
            /\ cache.hit => cache.value = df

C8_Witness ==
    /\ run.op = "dashboard"
    /\ run.input[1] # All
    /\ run.input[2] # All
    /\ run.input[3] = All
    /\ Len(run.out.filtered_df) > 0
    /\ Len(run.out.filtered_df) < Len(WhereEq(run.load.df, "Status", run.input[1]))

\* C9: the answer of query_ai is decided by the prompt and the file alone,
\* whatever table the run holds in its cache, and the query changes neither
\* the file nor the cached table.
C9_AnswerFromStorage ==
    [][(run'.op = "analyze" /\ run'.input # <<>> /\ cache'.hit)
       => /\ run'.out = IF storage'.state = "ok"
                        THEN respond(run'.input, read_excel(storage'.rows))
                        ELSE [kind |-> "ReadError"]
          /\ storage' = storage
          /\ cache.hit => cache' = cache]_vars

C9_Witness ==
    /\ Analyzed
    /\ storage.state = "ok"
    /\ cache.hit
    /\ cache.value # Stored
    /\ run.out.kind = "failed_count"
    /\ run.out # respond(run.input, cache.value)

\* C10 (as claimed): the run that follows an accepted submission works on
\* the table the file holds, whose last row is the new record.
C10_RerunSeesRecord ==
    Accepted =>
        /\ run.out.rerun_df = Stored
        /\ run.out.rerun_df[Len(run.out.rerun_df)] = read_excel(<<run.input>>)[1]
====
